---- MODULE Spec2Model ----
(***************************************************************************)
(* Model of c/secp256k1_ripemd160_sha256_sighash_all.c: the lock script    *)
(* that checks ripemd160(sha256(pubkey)) against the script argument and   *)
(* an ECDSA signature over the sighash-all message of the input group.     *)
(*                                                                         *)
(* A byte is a natural number.  A byte string that may be up to 32 KB      *)
(* long is kept as a record [head, pad]: the bytes of head followed by     *)
(* pad bytes of value 0, so that the sizes the program compares (1024,     *)
(* 32768) keep their real values.                                          *)
(***************************************************************************)
EXTENDS Integers, Sequences, FiniteSets, TLC

\* ------------------------------------------------------------ constants
BLAKE2B_BLOCK_SIZE == 32
RIPEMD160_SIZE == 20
SHA256_SIZE == 32
TEMP_SIZE == 1024
MAX_WITNESS_SIZE == 32768
SCRIPT_SIZE == 32768
RECOVERABLE_SIGNATURE_SIZE == 65
NONE_RECOVERABLE_SIGNATURE_SIZE == 64
COMPRESSED_PUBKEY_SIZE == 33
NONE_COMPRESSED_PUBKEY_SIZE == 65

\* Return values of the syscalls and of main.
CKB_SUCCESS == "CKB_SUCCESS"
CKB_INDEX_OUT_OF_BOUND == "CKB_INDEX_OUT_OF_BOUND"
CKB_ITEM_MISSING == "CKB_ITEM_MISSING"
MOL_OK == "MOL_OK"
MOL_ERR == "MOL_ERR"
RETURN_0 == "0"
ERROR_SYSCALL == "ERROR_SYSCALL"
ERROR_ENCODING == "ERROR_ENCODING"
ERROR_ARGUMENTS_LEN == "ERROR_ARGUMENTS_LEN"
ERROR_WITNESS_SIZE == "ERROR_WITNESS_SIZE"
ERROR_SECP_PARSE_SIGNATURE == "ERROR_SECP_PARSE_SIGNATURE"
ERROR_SECP_PARSE_PUBKEY == "ERROR_SECP_PARSE_PUBKEY"
ERROR_PUBKEY_RIPEMD160_HASH == "ERROR_PUBKEY_RIPEMD160_HASH"
ERROR_SECP_VERIFICATION == "ERROR_SECP_VERIFICATION"
ERROR_SECP_LOADING_DATA == "CKB_SECP256K1_HELPER_ERROR_LOADING_DATA"
\* The virtual machine stops the run (invalid memory access, cycle limit).
VM_FAULT == "VM_FAULT"
CKB_SOURCE_INPUT == "CKB_SOURCE_INPUT"
CKB_SOURCE_GROUP_INPUT == "CKB_SOURCE_GROUP_INPUT"

\* --------------------------------------------------------------- bounds
\* Witnesses of the group after witness 0 plus witnesses beyond the inputs.
MaxExtra == 1
\* Inputs of the transaction that are not in the script's group.
MaxForeign == 1
\* Length of a short witness.
TinyLen == 3
\* Bytes of witness 0 in front of the lock field.
LockOff == 2

\* ---------------------------------------------------------- byte strings
Min(a, b) == IF a < b THEN a ELSE b

Rep(n, b) == [k \in 1..n |-> b]

\* Length of the byte string [head, pad].
Size(w) == Len(w.head) + w.pad

\* Byte k (from 1) of a byte string.
ByteAt(w, k) == IF k <= Len(w.head) THEN w.head[k] ELSE 0

\* The n bytes that follow the first off bytes.
Slice(w, off, n) == [k \in 1..n |-> ByteAt(w, off + k)]

\* The first n bytes of a byte string that has at least n bytes.
Take(w, n) ==
    IF Size(w) <= n THEN w
    ELSE [w EXCEPT !.head = SubSeq(w.head, 1, Min(Len(w.head), n)),
                   !.pad = n - Min(Len(w.head), n)]

\* The k low bytes of n, the lowest first.
RECURSIVE LE(_, _)
LE(n, k) == IF k = 0 THEN <<>> ELSE <<n % 256>> \o LE(n \div 256, k - 1)

\* The 8 bytes of a uint64_t in memory (little endian).
LE8(n) == LE(n, 8)

\* ------------------------------------------------------------ primitives
\* SHA-256 and RIPEMD-160 are collision free: a digest is the list of the
\* algorithms applied and the input they were applied to.
Sha256(input) == [algs |-> <<"sha256">>, pre |-> input]

Ripemd160(digest) == [algs |-> <<"ripemd160">> \o digest.algs, pre |-> digest.pre]

\* The y coordinate of the curve point with x coordinate x and the given parity
\* (a stand-in for the curve equation: one y per x and parity).
CurveY(x, odd) == [k \in 1..32 |-> IF k = 32 THEN (IF odd THEN 1 ELSE 0) ELSE (x[k] + 1) % 256]

\* SEC1 encodings of a point.
Compressed(x, odd) == <<IF odd THEN 3 ELSE 2>> \o x

Uncompressed(x, odd) == <<4>> \o x \o CurveY(x, odd)

NoPoint == [ok |-> FALSE, x |-> <<>>, odd |-> FALSE]

\* secp256k1_ec_pubkey_parse: the point of a 33-byte compressed or a 65-byte
\* uncompressed encoding; ok is FALSE for any other header byte or a point
\* that is not on the curve.
secp256k1_ec_pubkey_parse(input) ==
    LET x == SubSeq(input, 2, 33) IN
    IF Len(input) = 33 /\ input[1] \in {2, 3}
      THEN [ok |-> TRUE, x |-> x, odd |-> input[1] = 3]
    ELSE IF Len(input) = 65 /\ input[1] = 4 /\ SubSeq(input, 34, 65) = CurveY(x, TRUE)
      THEN [ok |-> TRUE, x |-> x, odd |-> TRUE]
    ELSE IF Len(input) = 65 /\ input[1] = 4 /\ SubSeq(input, 34, 65) = CurveY(x, FALSE)
      THEN [ok |-> TRUE, x |-> x, odd |-> FALSE]
    ELSE NoPoint

NoSignature == [ok |-> FALSE, rs |-> <<>>]

\* secp256k1_ecdsa_signature_parse_compact: reads 64 bytes, r then s, and
\* fails when r or s overflows the group order (modelled on the top byte).
secp256k1_ecdsa_signature_parse_compact(input64) ==
    IF input64[1] = 255 \/ input64[33] = 255 THEN NoSignature
    ELSE [ok |-> TRUE, rs |-> input64]

\* The owner of the coins: the key, and the one signature the owner issued.
SignerX == Rep(32, 20)

OtherX == Rep(32, 21)

GoodSig == Rep(32, 10) \o Rep(32, 11)

\* secp256k1_ecdsa_verify: 1 exactly for the signature the owner of the key
\* issued over this digest (signed is the message the owner signed).
secp256k1_ecdsa_verify(sig, msg32, pubkey, signed) ==
    /\ sig.ok /\ sig.rs = GoodSig
    /\ pubkey.ok /\ pubkey.x = SignerX /\ ~pubkey.odd
    /\ msg32 = Sha256([fed |-> signed, clobbered |-> FALSE])

\* ------------------------------------------------- transaction snapshot
\* A witness: st is "ok" or "err" (the environment fails to load it); frame,
\* off and lock are what the schema decoder finds in its bytes: whether the
\* structure is valid, and the offset and length of its lock field.
Witness(headBytes, total, frameOk, lockLen) ==
    [st |-> "ok", head |-> headBytes, pad |-> total - Len(headBytes),
     frame |-> frameOk, off |-> LockOff, lock |-> lockLen]

\* Witness 0 with the lock sig \o pk, total bytes long.
LockWitness(sig, pk, total) ==
    Witness(Rep(LockOff, 17) \o sig \o pk \o <<18>>, total, TRUE, Len(sig) + Len(pk))

\* A witness the script never decodes, total bytes long, starting with tag.
PlainWitness(tag, total) == Witness(<<tag>>, total, FALSE, 0)

FailingWitness == [PlainWitness(9, TinyLen) EXCEPT !.st = "err"]

\* The script: st as for a witness, size its serialized length, valid whether
\* it is a well-formed Script, args the raw bytes of its args field.
Script(argsSize, argsBytes) ==
    [st |-> "ok", size |-> 53 + argsSize, valid |-> TRUE,
     args |-> [size |-> argsSize, bytes |-> argsBytes]]

Hash160(pk) == Ripemd160(Sha256(pk))

\* ckb_load_script(script, &len, 0): ret, the new value of len (the full
\* length), the number of bytes written (at most the len passed in) and the data.
ckb_load_script(tx, cap) ==
    IF tx.script.st /= "ok"
      THEN [ret |-> CKB_ITEM_MISSING, len |-> cap, written |-> 0, data |-> tx.script]
      ELSE [ret |-> CKB_SUCCESS, len |-> tx.script.size,
            written |-> Min(tx.script.size, cap), data |-> tx.script]

\* ckb_load_tx_hash(tx_hash, &len, 0).
ckb_load_tx_hash(tx, cap) ==
    IF tx.tx_hash.st /= "ok"
      THEN [ret |-> CKB_ITEM_MISSING, len |-> cap, written |-> 0, data |-> <<>>]
      ELSE [ret |-> CKB_SUCCESS, len |-> Len(tx.tx_hash.bytes),
            written |-> Min(Len(tx.tx_hash.bytes), cap),
            data |-> SubSeq(tx.tx_hash.bytes, 1, Min(Len(tx.tx_hash.bytes), cap))]

\* The witnesses by index in the Input scope: one per input, then the rest.
InputWitnesses(tx) == [k \in 1..Len(tx.inputs) |-> tx.inputs[k].w] \o tx.trailing

\* The Input-scope indices (from 1) of the inputs of the script's group.
GroupIndices(tx) == {k \in 1..Len(tx.inputs) : tx.inputs[k].grouped}

\* The k-th smallest element of a set of numbers.
RECURSIVE Nth(_, _)
Nth(S, k) ==
    LET m == CHOOSE x \in S : \A y \in S : x <= y IN
    IF k = 1 THEN m ELSE Nth(S \ {m}, k - 1)

\* The witnesses by index in the GroupInput scope.
GroupWitnesses(tx) ==
    [k \in 1..Cardinality(GroupIndices(tx)) |-> tx.inputs[Nth(GroupIndices(tx), k)].w]

\* ckb_load_witness(buf, &len, 0, index, source): CKB_INDEX_OUT_OF_BOUND past
\* the last witness of the scope; otherwise writes the first len bytes of the
\* witness and sets len to its full length.
ckb_load_witness(tx, cap, index, source) ==
    LET ws == IF source = CKB_SOURCE_GROUP_INPUT THEN GroupWitnesses(tx)
              ELSE InputWitnesses(tx)
        none == PlainWitness(0, 1) IN
    IF index + 1 > Len(ws)
      THEN [ret |-> CKB_INDEX_OUT_OF_BOUND, len |-> cap, written |-> 0, data |-> none]
    ELSE IF ws[index + 1].st /= "ok"
      THEN [ret |-> CKB_ITEM_MISSING, len |-> cap, written |-> 0, data |-> none]
    ELSE [ret |-> CKB_SUCCESS, len |-> Size(ws[index + 1]),
          written |-> Min(Size(ws[index + 1]), cap), data |-> Take(ws[index + 1], cap)]

\* calculate_inputs_len(): the number of inputs of the transaction.
calculate_inputs_len(tx) == Len(tx.inputs)

\* ckb_secp256k1_custom_verify_only_initialize: 0, or the helper's error when
\* the precomputed table cannot be loaded.
ckb_secp256k1_custom_verify_only_initialize(tx) ==
    IF tx.secp_data_ok THEN RETURN_0 ELSE ERROR_SECP_LOADING_DATA

\* MolReader_Script_verify(&script_seg, false).
MolReader_Script_verify(script_seg) == IF script_seg.valid THEN MOL_OK ELSE MOL_ERR

\* extract_witness_lock(witness, len, &lock_bytes_seg): validates the
\* structure and locates the lock field in the buffer.
extract_witness_lock(witness, len) ==
    IF witness.frame /\ witness.off + witness.lock <= len
      THEN [ret |-> RETURN_0, seg |-> [off |-> witness.off, size |-> witness.lock]]
      ELSE [ret |-> ERROR_ENCODING, seg |-> [off |-> 0, size |-> 0]]

\* ------------------------------------------------------------- the build
\* What the build makes of writes and reads past the end of a buffer.
\* after_temp is what lies behind temp[TEMP_SIZE]: "dead" (memory nothing
\* reads again, such as the script buffer), "witness" (the witness buffer,
\* which nothing reads again either), "sha256_ctx" (the running hash state),
\* "exit0" (the frame: the run is taken over and exits with 0) or "fault"
\* (the machine stops the run).  stale is the value of the bytes read behind
\* the bytes a load wrote.
Builds ==
    {[after_temp |-> "dead", stale |-> 0], [after_temp |-> "dead", stale |-> 1],
     [after_temp |-> "witness", stale |-> 1],
     [after_temp |-> "sha256_ctx", stale |-> 1], [after_temp |-> "exit0", stale |-> 1],
     [after_temp |-> "fault", stale |-> 1]}

\* ------------------------------------------------------- program state
NoBuf == [head |-> <<>>, pad |-> 0]

NoDigest == [algs |-> <<>>, pre |-> <<>>]

\* The state of main after its declarations (lines 61-71).  stored, readn,
\* loads, trace and hash_ok record what the run did: the most bytes a store
\* put into each buffer, the most bytes a hash update read from temp and
\* witness, the witnesses loaded, the steps taken, and whether the memcmp of
\* line 161 found the hashes equal.
InitState ==
    [pc |-> "load_script", ret |-> "running", len |-> 0,
     script |-> Script(0, NoDigest), args |-> [size |-> 0, bytes |-> NoDigest],
     tx_hash |-> <<>>, witness |-> PlainWitness(0, 1),
     lock |-> [off |-> 0, size |-> 0],
     signature |-> NoSignature, signature_len |-> 0, pubkey |-> NoPoint,
     temp |-> [digest |-> NoDigest, buf |-> NoBuf],
     sha |-> [fed |-> <<>>, clobbered |-> FALSE], i |-> 0,
     stored |-> [script |-> 0, tx_hash |-> 0, witness |-> 0, temp |-> 0],
     readn |-> [witness |-> 0, temp |-> 0],
     loads |-> <<>>, trace |-> <<>>, hash_ok |-> FALSE]

\* return code;
Return(s, code) == [s EXCEPT !.pc = "done", !.ret = code]

\* The bytes a read of n bytes finds in a buffer a load wrote buf into: the
\* bytes written, then stale bytes of the build (kept apart as a count when
\* their value differs from the padding).
ReadBack(buf, n, build) ==
    LET over == IF n > Size(buf) THEN n - Size(buf) ELSE 0
        b == Take(buf, n) IN
    IF build.stale = 0
      THEN [head |-> b.head, pad |-> b.pad + over, stale |-> 0]
      ELSE [head |-> b.head, pad |-> b.pad, stale |-> over]

\* sha256_update(&sha256_ctx, p, n), chunk being the n bytes at p.
sha256_update(ctx, chunk) == [ctx EXCEPT !.fed = Append(ctx.fed, chunk)]

\* sha256_init(&sha256_ctx).
sha256_init == [fed |-> <<>>, clobbered |-> FALSE]

Bytes(seq) == [head |-> seq, pad |-> 0, stale |-> 0]

Max(a, b) == IF a > b THEN a ELSE b

\* Lines 73-78: load the script.
StepLoadScript(s, tx) ==
    LET r == ckb_load_script(tx, SCRIPT_SIZE) IN
    IF r.ret /= CKB_SUCCESS THEN Return(s, ERROR_SYSCALL)
    ELSE [s EXCEPT !.pc = "verify_script", !.len = r.len, !.script = r.data,
                   !.stored.script = r.written]

\* Lines 79-88: verify the script and find its args.
StepVerifyScript(s) ==
    IF MolReader_Script_verify(s.script) /= MOL_OK THEN Return(s, ERROR_ENCODING)
    ELSE IF s.script.args.size /= RIPEMD160_SIZE THEN Return(s, ERROR_ARGUMENTS_LEN)
    ELSE [s EXCEPT !.pc = "load_tx_hash", !.args = s.script.args]

\* Lines 90-94: load the transaction hash.
StepLoadTxHash(s, tx) ==
    LET r == ckb_load_tx_hash(tx, BLAKE2B_BLOCK_SIZE) IN
    IF r.ret /= CKB_SUCCESS THEN Return(s, ERROR_SYSCALL)
    ELSE [s EXCEPT !.pc = "load_witness", !.len = r.len, !.tx_hash = r.data,
                   !.stored.tx_hash = r.written]

\* Lines 95-100: load witness 0 of the group.
StepLoadWitness(s, tx) ==
    LET r == ckb_load_witness(tx, MAX_WITNESS_SIZE, 0, CKB_SOURCE_GROUP_INPUT)
        t == [s EXCEPT !.loads = Append(s.loads, <<CKB_SOURCE_GROUP_INPUT, 0>>)] IN
    IF r.ret /= CKB_SUCCESS THEN Return(t, ERROR_SYSCALL)
    ELSE [t EXCEPT !.pc = "extract_lock", !.len = r.len, !.witness = r.data,
                   !.stored.witness = r.written]

\* Lines 101-106: decode the lock field.
StepExtractLock(s) ==
    LET r == extract_witness_lock(s.witness, s.len) IN
    IF r.ret /= RETURN_0 THEN Return(s, ERROR_ENCODING)
    ELSE [s EXCEPT !.pc = "check_lock_len", !.lock = r.seg]

\* Lines 108-115: the lock is a signature of 64 or 65 bytes and a pubkey of 33
\* or 65 bytes.
LockLenAllowed(lock_len) ==
    ~ (/\ lock_len /= RECOVERABLE_SIGNATURE_SIZE + NONE_COMPRESSED_PUBKEY_SIZE
       /\ lock_len /= RECOVERABLE_SIGNATURE_SIZE + COMPRESSED_PUBKEY_SIZE
       /\ lock_len /= NONE_RECOVERABLE_SIGNATURE_SIZE + NONE_COMPRESSED_PUBKEY_SIZE
       /\ lock_len /= NONE_RECOVERABLE_SIGNATURE_SIZE + COMPRESSED_PUBKEY_SIZE)

StepCheckLockLen(s) ==
    IF ~LockLenAllowed(s.lock.size) THEN Return(s, ERROR_WITNESS_SIZE)
    ELSE [s EXCEPT !.pc = "secp_init"]

\* Lines 117-121: initialize the secp256k1 context.
StepSecpInit(s, tx) ==
    LET r == ckb_secp256k1_custom_verify_only_initialize(tx) IN
    IF r /= RETURN_0 THEN Return(s, r)
    ELSE [s EXCEPT !.pc = "parse_signature"]

\* Lines 123-127: parse the compact signature at the start of the lock.
StepParseSignature(s) ==
    LET sig == secp256k1_ecdsa_signature_parse_compact(Slice(s.witness, s.lock.off, 64)) IN
    IF ~sig.ok THEN Return(s, ERROR_SECP_PARSE_SIGNATURE)
    ELSE [s EXCEPT !.pc = "parse_pubkey", !.signature = sig]

\* The split with the uncompressed branch taken for 130 bytes only.
SignatureLenOneBranch(lock_len) ==
    IF lock_len = RECOVERABLE_SIGNATURE_SIZE + NONE_COMPRESSED_PUBKEY_SIZE
      THEN lock_len - NONE_COMPRESSED_PUBKEY_SIZE
      ELSE lock_len - COMPRESSED_PUBKEY_SIZE

\* Lines 132-135, 142: the length of the signature in a lock of lock_len bytes.
SignatureLen(lock_len) ==
    IF \/ lock_len = RECOVERABLE_SIGNATURE_SIZE + NONE_COMPRESSED_PUBKEY_SIZE
       \/ lock_len = NONE_RECOVERABLE_SIGNATURE_SIZE + NONE_COMPRESSED_PUBKEY_SIZE
      THEN lock_len - NONE_COMPRESSED_PUBKEY_SIZE
      ELSE lock_len - COMPRESSED_PUBKEY_SIZE

\* The pubkey parse that goes on to the message, past the hash check.
StepParsePubkeyThenHash(s) ==
    LET signature_len == SignatureLen(s.lock.size)
        pk == secp256k1_ec_pubkey_parse(
                  Slice(s.witness, s.lock.off + signature_len, s.lock.size - signature_len))
        t == [s EXCEPT !.signature_len = signature_len] IN
    IF ~pk.ok THEN Return(t, ERROR_SECP_PARSE_PUBKEY)
    ELSE [t EXCEPT !.pc = "hash_first_witness", !.pubkey = pk]

\* Lines 129-148: parse the pubkey that follows the signature.
StepParsePubkey(s) ==
    LET lock_len == s.lock.size
        signature_len == SignatureLen(lock_len)
        pk == secp256k1_ec_pubkey_parse(
                  Slice(s.witness, s.lock.off + signature_len, lock_len - signature_len))
        t == [s EXCEPT !.signature_len = signature_len] IN
    IF ~pk.ok THEN Return(t, ERROR_SECP_PARSE_PUBKEY)
    ELSE [t EXCEPT !.pc = "check_pubkey_hash", !.pubkey = pk]

\* The hash check without its return: a mismatch goes on to the message.
StepCheckPubkeyHashNoReturn(s) ==
    LET ripe == Ripemd160(Sha256(Slice(s.witness, s.lock.off + s.signature_len,
                                       s.lock.size - s.signature_len))) IN
    [s EXCEPT !.pc = "hash_first_witness", !.temp.digest = ripe,
              !.stored.temp = Max(s.stored.temp, SHA256_SIZE),
              !.hash_ok = (s.args.bytes = ripe)]

\* Lines 150-163: ripemd160(sha256(pubkey bytes)) against the script args.
StepCheckPubkeyHash(s) ==
    LET lock_len == s.lock.size
        sha == Sha256(Slice(s.witness, s.lock.off + s.signature_len,
                            lock_len - s.signature_len))
        ripe == Ripemd160(sha)
        t == [s EXCEPT !.temp.digest = ripe,
                       !.stored.temp = Max(s.stored.temp, SHA256_SIZE)] IN
    IF s.args.bytes /= ripe THEN Return(t, ERROR_PUBKEY_RIPEMD160_HASH)
    ELSE [t EXCEPT !.pc = "hash_first_witness", !.hash_ok = TRUE]

\* memset(p, 0, n) on the n bytes that follow the first off bytes of a buffer.
ZeroFill(buf, off, n) ==
    [buf EXCEPT !.head = [k \in 1..Len(buf.head) |->
                             IF k > off /\ k <= off + n THEN 0 ELSE buf.head[k]]]

\* Lines 165-171, 174: start the message with the transaction hash and witness
\* 0, its signature zeroed.
StepHashFirstWitness(s, build) ==
    LET ctx0 == sha256_update(sha256_init, Bytes(s.tx_hash))
        w == ZeroFill(s.witness, s.lock.off, s.signature_len)
        ctx1 == sha256_update(ctx0, Bytes(LE8(s.len)))
        ctx2 == sha256_update(ctx1, ReadBack(w, s.len, build)) IN
    [s EXCEPT !.pc = "group_loop", !.witness = w, !.sha = ctx2, !.i = 1,
              !.readn.witness = Max(s.readn.witness, s.len)]

\* A buffer whose first n bytes are overwritten by the bytes of data that
\* follow its first from bytes.
Overwrite(buf, data, from, n) ==
    [buf EXCEPT !.head = [k \in 1..Len(buf.head) |->
                             IF k <= n THEN ByteAt(data, from + k) ELSE buf.head[k]]]

\* ckb_load_witness(temp, &len, ...) returned CKB_SUCCESS with r: temp holds
\* the bytes written.  More than TEMP_SIZE bytes run over the end of temp, and
\* the build decides what that does.
StoreTemp(s, r, build) ==
    LET t == [s EXCEPT !.len = r.len, !.temp.buf = [head |-> r.data.head, pad |-> r.data.pad],
                       !.stored.temp = Max(s.stored.temp, r.written)] IN
    IF r.written <= TEMP_SIZE \/ build.after_temp = "dead" THEN t
    ELSE IF build.after_temp = "witness"
      THEN [t EXCEPT !.witness = Overwrite(s.witness, r.data, TEMP_SIZE,
                                           r.written - TEMP_SIZE)]
    ELSE IF build.after_temp = "sha256_ctx" THEN [t EXCEPT !.sha.clobbered = TRUE]
    ELSE IF build.after_temp = "exit0" THEN Return(t, RETURN_0)
    ELSE Return(t, VM_FAULT)

\* sha256_update of len, then of len bytes of temp (lines 184-185, 203-204).
DigestTemp(s, build) ==
    [s EXCEPT !.sha = sha256_update(sha256_update(s.sha, Bytes(LE8(s.len))),
                                    ReadBack(s.temp.buf, s.len, build)),
              !.readn.temp = Max(s.readn.temp, s.len),
              !.i = s.i + 1]

\* The loop over the group leaving i at 0 at its end.
StepGroupLoopRestartsAtZero(s, tx, build) ==
    LET r == ckb_load_witness(tx, MAX_WITNESS_SIZE, s.i, CKB_SOURCE_GROUP_INPUT)
        t == [s EXCEPT !.len = MAX_WITNESS_SIZE,
                       !.loads = Append(s.loads, <<CKB_SOURCE_GROUP_INPUT, s.i>>)] IN
    IF r.ret = CKB_INDEX_OUT_OF_BOUND
      THEN [t EXCEPT !.pc = "trailing_loop", !.i = 0]
    ELSE IF r.ret /= CKB_SUCCESS THEN Return(t, ERROR_SYSCALL)
    ELSE LET u == StoreTemp(t, r, build) IN
         IF u.pc = "done" THEN u ELSE DigestTemp(u, build)

\* Lines 173-190: one turn of the loop over the witnesses of the group; at
\* its end i becomes the number of inputs.
StepGroupLoop(s, tx, build) ==
    LET r == ckb_load_witness(tx, MAX_WITNESS_SIZE, s.i, CKB_SOURCE_GROUP_INPUT)
        t == [s EXCEPT !.len = MAX_WITNESS_SIZE,
                       !.loads = Append(s.loads, <<CKB_SOURCE_GROUP_INPUT, s.i>>)] IN
    IF r.ret = CKB_INDEX_OUT_OF_BOUND
      THEN [t EXCEPT !.pc = "trailing_loop", !.i = calculate_inputs_len(tx)]
    ELSE IF r.ret /= CKB_SUCCESS THEN Return(t, ERROR_SYSCALL)
    ELSE LET u == StoreTemp(t, r, build) IN
         IF u.pc = "done" THEN u ELSE DigestTemp(u, build)

\* The loop over the witnesses beyond the inputs going on to the next index
\* when a load fails.
StepTrailingLoopSkipsFailure(s, tx, build) ==
    LET r == ckb_load_witness(tx, MAX_WITNESS_SIZE, s.i, CKB_SOURCE_INPUT)
        t == [s EXCEPT !.len = MAX_WITNESS_SIZE,
                       !.loads = Append(s.loads, <<CKB_SOURCE_INPUT, s.i>>)] IN
    IF r.ret = CKB_INDEX_OUT_OF_BOUND THEN [t EXCEPT !.pc = "verify"]
    ELSE IF r.ret /= CKB_SUCCESS THEN [t EXCEPT !.i = s.i + 1]
    ELSE LET u == StoreTemp(t, r, build) IN
         IF u.pc = "done" THEN u
         ELSE IF u.len > MAX_WITNESS_SIZE THEN Return(u, ERROR_WITNESS_SIZE)
         ELSE DigestTemp(u, build)

\* Lines 191-206: one turn of the loop over the witnesses beyond the inputs.
StepTrailingLoop(s, tx, build) ==
    LET r == ckb_load_witness(tx, MAX_WITNESS_SIZE, s.i, CKB_SOURCE_INPUT)
        t == [s EXCEPT !.len = MAX_WITNESS_SIZE,
                       !.loads = Append(s.loads, <<CKB_SOURCE_INPUT, s.i>>)] IN
    IF r.ret = CKB_INDEX_OUT_OF_BOUND THEN [t EXCEPT !.pc = "verify"]
    ELSE IF r.ret /= CKB_SUCCESS THEN Return(t, ERROR_SYSCALL)
    ELSE LET u == StoreTemp(t, r, build) IN
         IF u.pc = "done" THEN u
         ELSE IF u.len > MAX_WITNESS_SIZE THEN Return(u, ERROR_WITNESS_SIZE)
         ELSE DigestTemp(u, build)

\* Lines 208-215: finish the hash and verify the signature over it.
StepVerify(s, signed) ==
    LET digest == Sha256(s.sha)
        t == [s EXCEPT !.temp.digest = digest,
                       !.stored.temp = Max(s.stored.temp, SHA256_SIZE)] IN
    IF ~secp256k1_ecdsa_verify(s.signature, digest, s.pubkey, signed)
      THEN Return(t, ERROR_SECP_VERIFICATION)
      ELSE Return(t, RETURN_0)

\* The step of main at s.pc.
Step(s, tx, build, signed) ==
    LET t == [s EXCEPT !.trace = Append(s.trace, s.pc)] IN
    CASE s.pc = "load_script" -> StepLoadScript(t, tx)
      [] s.pc = "verify_script" -> StepVerifyScript(t)
      [] s.pc = "load_tx_hash" -> StepLoadTxHash(t, tx)
      [] s.pc = "load_witness" -> StepLoadWitness(t, tx)
      [] s.pc = "extract_lock" -> StepExtractLock(t)
      [] s.pc = "check_lock_len" -> StepCheckLockLen(t)
      [] s.pc = "secp_init" -> StepSecpInit(t, tx)
      [] s.pc = "parse_signature" -> StepParseSignature(t)
      [] s.pc = "parse_pubkey" -> StepParsePubkey(t)
      [] s.pc = "check_pubkey_hash" -> StepCheckPubkeyHash(t)
      [] s.pc = "hash_first_witness" -> StepHashFirstWitness(t, build)
      [] s.pc = "group_loop" -> StepGroupLoop(t, tx, build)
      [] s.pc = "trailing_loop" -> StepTrailingLoop(t, tx, build)
      [] s.pc = "verify" -> StepVerify(t, signed)
      [] OTHER -> s

\* main run to its return.
RECURSIVE Run(_, _, _, _)
Run(s, tx, build, signed) ==
    IF s.pc = "done" THEN s ELSE Run(Step(s, tx, build, signed), tx, build, signed)

\* The result code of main on a transaction.
Outcome(tx, build, signed) == Run(InitState, tx, build, signed).ret

\* --------------------------------------------------------- the signer
\* All bytes of a witness, as a chunk of the message.
Full(w) == [head |-> w.head, pad |-> w.pad, stale |-> 0]

\* Each witness of ws behind its length: len(w) as 8 bytes, then its bytes.
Prefixed(ws) ==
    [k \in 1..(2 * Len(ws)) |->
        IF k % 2 = 1 THEN Bytes(LE8(Size(ws[(k + 1) \div 2]))) ELSE Full(ws[k \div 2])]

\* The sighash-all message of a transaction as a wallet builds it from the
\* design: the transaction hash, then witness 0 of the group with the
\* zeroed bytes of its lock zeroed, the other witnesses of the group and
\* the witnesses beyond the inputs, each behind its length.
Message(tx, zeroed) ==
    LET g == GroupWitnesses(tx)
        w0 == ZeroFill(g[1], g[1].off, zeroed) IN
    <<Bytes(tx.tx_hash.bytes)>> \o Prefixed(<<w0>>)
        \o Prefixed(SubSeq(g, 2, Len(g))) \o Prefixed(tx.trailing)

\* The length of the signature in the lock of witness 0, by the design: the
\* pubkey has 65 bytes in a lock of 129 or 130 bytes and 33 bytes otherwise.
DesignSignatureLen(w) == IF w.lock \in {129, 130} THEN w.lock - 65 ELSE w.lock - 33

SighashAll(tx) == Message(tx, DesignSignatureLen(GroupWitnesses(tx)[1]))

\* ------------------------------------------------------- the snapshots
SignerC == Compressed(SignerX, FALSE)

SignerU == Uncompressed(SignerX, FALSE)

RecoverableSig == GoodSig \o <<1>>

SmallLock(sig, pk) == LockWitness(sig, pk, LockOff + Len(sig) + Len(pk) + 1)

\* Witness 0 as the owner builds it.
GoodWitness == SmallLock(RecoverableSig, SignerC)

\* Witness 0 with a well-formed lock of another key.
OtherKeyWitness == SmallLock(RecoverableSig, Compressed(OtherX, FALSE))

FirstWitnesses ==
    {SmallLock(sg, pk) : sg \in {GoodSig, RecoverableSig}, pk \in {SignerC, SignerU}}
    \cup {OtherKeyWitness,
          SmallLock(<<255>> \o Rep(63, 10), SignerC),
          SmallLock(Rep(64, 12), SignerC),
          SmallLock(GoodSig, <<5>> \o SignerX),
          SmallLock(GoodSig, <<4>> \o SignerX \o SignerX),
          SmallLock(Rep(63, 10), SignerC),
          SmallLock(RecoverableSig \o <<1>>, SignerU),
          [GoodWitness EXCEPT !.frame = FALSE],
          FailingWitness,
          LockWitness(RecoverableSig, SignerC, MAX_WITNESS_SIZE),
          LockWitness(RecoverableSig, SignerC, MAX_WITNESS_SIZE + 1)}

GoodScript == Script(RIPEMD160_SIZE, Hash160(SignerC))

Scripts ==
    {GoodScript, Script(RIPEMD160_SIZE, Hash160(SignerU)),
     Script(RIPEMD160_SIZE - 1, Hash160(SignerC)),
     Script(SCRIPT_SIZE, Hash160(SignerC)),
     [GoodScript EXCEPT !.valid = FALSE], [GoodScript EXCEPT !.st = "err"]}

TxHashes == {[st |-> "ok", bytes |-> Rep(BLAKE2B_BLOCK_SIZE, 7)], [st |-> "err", bytes |-> <<>>]}

\* The witnesses after witness 0: short, around the size of temp, around the
\* largest size, or failing to load.
ExtraWitnesses ==
    {PlainWitness(9, n) : n \in {TinyLen, TEMP_SIZE, TEMP_SIZE + 1,
                                 MAX_WITNESS_SIZE, MAX_WITNESS_SIZE + 1}}
    \cup {FailingWitness}

SeqsUpTo(S, n) == UNION {[1..k -> S] : k \in 0..n}

ForeignWitness == PlainWitness(8, TinyLen)

\* A transaction: nf inputs of other scripts, then the inputs of the group
\* with witness w0 and the witnesses rest, then the witnesses beyond the inputs.
Tx(scr, th, secp, nf, w0, rest, trailing) ==
    [script |-> scr, tx_hash |-> th, secp_data_ok |-> secp,
     inputs |-> [k \in 1..nf |-> [grouped |-> FALSE, w |-> ForeignWitness]]
                \o [k \in 1..(1 + Len(rest)) |->
                       [grouped |-> TRUE, w |-> (<<w0>> \o rest)[k]]],
     trailing |-> trailing]

\* Snapshots that differ in what is loaded before the loops, and snapshots
\* that differ in the witnesses the loops load.
Txs ==
    {Tx(scr, th, secp, 0, w0, <<>>, <<>>) :
        scr \in Scripts, th \in TxHashes, secp \in BOOLEAN, w0 \in FirstWitnesses}
    \cup
    {Tx(x[2], [st |-> "ok", bytes |-> Rep(BLAKE2B_BLOCK_SIZE, 7)], TRUE,
        x[1], GoodWitness, x[3], x[4]) :
        x \in {y \in (0..MaxForeign)
                       \X {GoodScript, Script(RIPEMD160_SIZE, Hash160(SignerU))}
                       \X SeqsUpTo(ExtraWitnesses, MaxExtra)
                       \X SeqsUpTo(ExtraWitnesses, MaxExtra) :
                  Len(y[3]) + Len(y[4]) <= MaxExtra}}

\* Whether the run can write or read past a buffer: only then does the build
\* make a difference.
Oversize(t) ==
    \/ \E k \in 1..Len(InputWitnesses(t)) : Size(InputWitnesses(t)[k]) > TEMP_SIZE

\* ------------------------------------------------------------ the run
VARIABLES tx, build, signed,
          pc, ret, len, script, args, tx_hash, witness, lock, signature,
          signature_len, pubkey, temp, sha, i,
          stored, readn, loads, trace, hash_ok

vars == <<tx, build, signed, pc, ret, len, script, args, tx_hash, witness, lock,
          signature, signature_len, pubkey, temp, sha, i, stored, readn, loads,
          trace, hash_ok>>

State ==
    [pc |-> pc, ret |-> ret, len |-> len, script |-> script, args |-> args,
     tx_hash |-> tx_hash, witness |-> witness, lock |-> lock,
     signature |-> signature, signature_len |-> signature_len, pubkey |-> pubkey,
     temp |-> temp, sha |-> sha, i |-> i, stored |-> stored, readn |-> readn,
     loads |-> loads, trace |-> trace, hash_ok |-> hash_ok]

Apply(next) ==
    \E n \in {next} :
    /\ pc' = n.pc /\ ret' = n.ret /\ len' = n.len /\ script' = n.script
    /\ args' = n.args /\ tx_hash' = n.tx_hash /\ witness' = n.witness
    /\ lock' = n.lock /\ signature' = n.signature
    /\ signature_len' = n.signature_len /\ pubkey' = n.pubkey /\ temp' = n.temp
    /\ sha' = n.sha /\ i' = n.i /\ stored' = n.stored /\ readn' = n.readn
    /\ loads' = n.loads /\ trace' = n.trace /\ hash_ok' = n.hash_ok
    /\ UNCHANGED <<tx, build, signed>>

\* main is entered: the build is any when a load can pass the end of a
\* buffer, the owner has signed the message of the design or another one, and
\* no step is taken yet.
Entry ==
    /\ build \in Builds
    /\ Oversize(tx) \/ build = [after_temp |-> "dead", stale |-> 0]
    /\ signed \in {SighashAll(tx), Message(tx, 0)}
    /\ pc = InitState.pc /\ ret = InitState.ret /\ len = InitState.len
    /\ script = InitState.script /\ args = InitState.args
    /\ tx_hash = InitState.tx_hash /\ witness = InitState.witness
    /\ lock = InitState.lock /\ signature = InitState.signature
    /\ signature_len = InitState.signature_len /\ pubkey = InitState.pubkey
    /\ temp = InitState.temp /\ sha = InitState.sha /\ i = InitState.i
    /\ stored = InitState.stored /\ readn = InitState.readn
    /\ loads = InitState.loads /\ trace = InitState.trace
    /\ hash_ok = InitState.hash_ok

Init == tx \in Txs /\ Entry

LoadScript == pc = "load_script" /\ Apply(Step(State, tx, build, signed))

VerifyScript == pc = "verify_script" /\ Apply(Step(State, tx, build, signed))

LoadTxHash == pc = "load_tx_hash" /\ Apply(Step(State, tx, build, signed))

LoadWitness == pc = "load_witness" /\ Apply(Step(State, tx, build, signed))

ExtractLock == pc = "extract_lock" /\ Apply(Step(State, tx, build, signed))

CheckLockLen == pc = "check_lock_len" /\ Apply(Step(State, tx, build, signed))

SecpInit == pc = "secp_init" /\ Apply(Step(State, tx, build, signed))

ParseSignature == pc = "parse_signature" /\ Apply(Step(State, tx, build, signed))

ParsePubkey == pc = "parse_pubkey" /\ Apply(Step(State, tx, build, signed))

CheckPubkeyHash == pc = "check_pubkey_hash" /\ Apply(Step(State, tx, build, signed))

HashFirstWitness == pc = "hash_first_witness" /\ Apply(Step(State, tx, build, signed))

GroupLoop == pc = "group_loop" /\ Apply(Step(State, tx, build, signed))

TrailingLoop == pc = "trailing_loop" /\ Apply(Step(State, tx, build, signed))

Verify == pc = "verify" /\ Apply(Step(State, tx, build, signed))

Next ==
    \/ LoadScript \/ VerifyScript \/ LoadTxHash \/ LoadWitness \/ ExtractLock
    \/ CheckLockLen \/ SecpInit \/ ParseSignature \/ ParsePubkey \/ CheckPubkeyHash
    \/ HashFirstWitness \/ GroupLoop \/ TrailingLoop \/ Verify

Spec == Init /\ [][Next]_vars

\* The snapshots of the runs through the loops: a failing load of the
\* script, of the transaction hash and of witness 0, and after a verifying
\* witness 0 witnesses that are short, overflow temp or fail to load.
ScanWitnesses == {PlainWitness(9, TinyLen), PlainWitness(9, TEMP_SIZE + 1), FailingWitness}

ScanSeqs ==
    {<<>>} \cup {<<a>> : a \in ScanWitnesses}
           \cup {<<a, b>> : a \in ScanWitnesses, b \in ScanWitnesses}

ScanTxs ==
    {Tx(GoodScript, th, TRUE, 0, GoodWitness, <<>>, <<>>) : th \in TxHashes}
    \cup {Tx(scr, [st |-> "ok", bytes |-> Rep(BLAKE2B_BLOCK_SIZE, 7)], TRUE, 0, w0, <<>>, <<>>) :
             scr \in {GoodScript, [GoodScript EXCEPT !.st = "err"]},
             w0 \in {GoodWitness, FailingWitness}}
    \cup {Tx(GoodScript, [st |-> "ok", bytes |-> Rep(BLAKE2B_BLOCK_SIZE, 7)], TRUE,
              MaxForeign, GoodWitness, x[1], x[2]) :
             x \in {y \in ScanSeqs \X ScanSeqs : Len(y[1]) + Len(y[2]) < 3}}

ScanInit == tx \in ScanTxs /\ Entry /\ signed = SighashAll(tx)

\* main runs to its return: no step is postponed for ever.
FairSpec == ScanInit /\ [][Next]_vars /\ WF_vars(Next)

\* ---------------------------------------------------------------- claims
Has(seq, x) == \E k \in 1..Len(seq) : seq[k] = x

Done == pc = "done"

\* Witness 0 of the group as the transaction holds it, and the bytes of its
\* lock field, its signature and its pubkey by the design's split.
W0 == GroupWitnesses(tx)[1]

LockBytes == Slice(W0, W0.off, W0.lock)

SigBytes == SubSeq(LockBytes, 1, DesignSignatureLen(W0))

PubkeyBytes == SubSeq(LockBytes, DesignSignatureLen(W0) + 1, W0.lock)

\* Context loading and lock decoding succeed, the lock has an allowed length
\* and the signature and pubkey bytes are well-formed.
WellFormedInput ==
    /\ tx.script.st = "ok" /\ tx.script.valid /\ tx.script.args.size = 20
    /\ tx.tx_hash.st = "ok" /\ tx.secp_data_ok
    /\ W0.st = "ok" /\ W0.frame /\ W0.off + W0.lock <= Size(W0)
    /\ W0.lock \in {97, 98, 129, 130}
    /\ secp256k1_ecdsa_signature_parse_compact(SubSeq(LockBytes, 1, 64)).ok
    /\ secp256k1_ec_pubkey_parse(PubkeyBytes).ok

HashDiffers == Hash160(PubkeyBytes) /= tx.script.args.bytes

\* C1: on a well-formed input whose pubkey does not hash to the script
\* argument, the run never goes past the hash check and ends with
\* ERROR_PUBKEY_RIPEMD160_HASH, whatever the signature and the other witnesses.
C1_PubkeyHashGate ==
    (WellFormedInput /\ HashDiffers) =>
        /\ pc \notin {"hash_first_witness", "group_loop", "trailing_loop", "verify"}
        /\ Done => ret = ERROR_PUBKEY_RIPEMD160_HASH

\* The owner's signature and key in witness 0, further witnesses in the
\* transaction, and a script argument that is the hash of another encoding.
C1_Witness ==
    /\ Done /\ WellFormedInput /\ HashDiffers
    /\ secp256k1_ecdsa_signature_parse_compact(SubSeq(LockBytes, 1, 64)).rs = GoodSig
    /\ secp256k1_ec_pubkey_parse(PubkeyBytes).x = SignerX
    /\ signed = SighashAll(tx)
    /\ Len(tx.trailing) > 0 /\ Len(tx.inputs) > 1
    /\ ret = ERROR_PUBKEY_RIPEMD160_HASH


\* The lock length, signature length and pubkey length the run works with.
PubkeyLen == lock.size - signature_len

\* C6: a lock whose length is none of 97, 98, 129, 130 ends the run with
\* ERROR_WITNESS_SIZE before anything is parsed; for an allowed length the
\* split is the only one into a signature of 64 or 65 bytes and a pubkey of
\* 65 bytes (lengths 129, 130) or 33 bytes (lengths 97, 98), and the pubkey
\* parsed and hashed is the bytes from offset signature_len to the end of the lock.
C6_LockLength ==
    /\ (Has(trace, "check_lock_len") /\ lock.size \notin {97, 98, 129, 130}) =>
          /\ Done /\ ret = ERROR_WITNESS_SIZE
          /\ ~Has(trace, "secp_init") /\ ~Has(trace, "parse_signature")
          /\ ~Has(trace, "parse_pubkey")
          /\ ~signature.ok /\ ~pubkey.ok
    /\ Has(trace, "parse_pubkey") =>
          /\ lock.size \in {97, 98, 129, 130}
          /\ signature_len \in {64, 65}
          /\ PubkeyLen = (IF lock.size \in {129, 130} THEN 65 ELSE 33)
          /\ \A sl \in {64, 65}, pl \in {33, 65} :
                sl + pl = lock.size => (sl = signature_len /\ pl = PubkeyLen)
          /\ pubkey = secp256k1_ec_pubkey_parse(SubSeq(LockBytes, signature_len + 1, lock.size))
    /\ (Has(trace, "check_pubkey_hash") /\ ~Has(trace, "verify")) =>
          temp.digest = Hash160(SubSeq(LockBytes, signature_len + 1, lock.size))

\* A lock of 129 bytes, 64 of signature and 65 of pubkey, verified.
C6_Witness ==
    /\ Done /\ ret = RETURN_0 /\ lock.size = 129 /\ signature_len = 64
    /\ Len(PubkeyBytes) = 65

\* The bytes of witness 0 that the load of line 97 puts into the buffer.
Loaded0 == Take(W0, MAX_WITNESS_SIZE)

\* The witness a load names, and whether the load finds one.
ScopeOf(load) ==
    IF load[1] = CKB_SOURCE_GROUP_INPUT THEN GroupWitnesses(tx) ELSE InputWitnesses(tx)

Found(load) == load[2] + 1 <= Len(ScopeOf(load)) /\ ScopeOf(load)[load[2] + 1].st = "ok"

WitnessOf(load) == ScopeOf(load)[load[2] + 1]

\* C4: the witness buffer holds the loaded bytes until the message is begun;
\* from then on it differs from them in exactly the signature_len (64 or 65)
\* bytes at the lock offset, which are zero, so the pubkey bytes and all other
\* bytes are as loaded; by then the signature has been parsed from, and the
\* pubkey hash computed over, the original bytes; and temp holds the bytes of
\* every other witness as loaded.
C4_ZeroFillFrame ==
    /\ (Has(trace, "extract_lock") /\ ~Has(trace, "hash_first_witness")) =>
          witness = Loaded0
    /\ Has(trace, "hash_first_witness") =>
          /\ signature_len = DesignSignatureLen(W0) /\ signature_len \in {64, 65}
          /\ witness.pad = Loaded0.pad /\ Len(witness.head) = Len(Loaded0.head)
          /\ \A k \in 1..Len(Loaded0.head) :
                witness.head[k] =
                    IF k > W0.off /\ k <= W0.off + signature_len THEN 0
                    ELSE Loaded0.head[k]
          /\ Slice(witness, lock.off + signature_len, PubkeyLen) = PubkeyBytes
          /\ signature.ok /\ signature.rs = SubSeq(LockBytes, 1, 64)
          /\ pubkey = secp256k1_ec_pubkey_parse(PubkeyBytes)
          /\ hash_ok /\ args.bytes = Hash160(PubkeyBytes)
    /\ (Len(loads) > 1 /\ Found(loads[Len(loads)])) =>
          LET w == Take(WitnessOf(loads[Len(loads)]), MAX_WITNESS_SIZE) IN
          temp.buf = [head |-> w.head, pad |-> w.pad]

\* The place of a step in main.
Rank(step) ==
    CASE step = "load_script" -> 1 [] step = "verify_script" -> 2
      [] step = "load_tx_hash" -> 3 [] step = "load_witness" -> 4
      [] step = "extract_lock" -> 5 [] step = "check_lock_len" -> 6
      [] step = "secp_init" -> 7 [] step = "parse_signature" -> 8
      [] step = "parse_pubkey" -> 9 [] step = "check_pubkey_hash" -> 10
      [] step = "hash_first_witness" -> 11 [] step = "group_loop" -> 12
      [] step = "trailing_loop" -> 13 [] step = "verify" -> 14

\* C7 as stated: no step of the Signature Verifier (signature parse, pubkey
\* parse, ECDSA verify) is taken, and none of its errors is returned, before
\* the pubkey-hash comparison has succeeded.
C7_VerifierAfterHashCheck ==
    /\ (Has(trace, "parse_signature") \/ Has(trace, "parse_pubkey")
            \/ Has(trace, "verify")) => hash_ok
    /\ ret \in {ERROR_SECP_PARSE_SIGNATURE, ERROR_SECP_PARSE_PUBKEY,
                ERROR_SECP_VERIFICATION} => hash_ok

\* C7 as amended: the steps are taken in the order load witness 0, decode the
\* lock, parse the signature, parse the pubkey, compare the pubkey hash, build
\* the message (first witness, group, beyond the inputs), verify; every step
\* but the two loops is taken at most once and only after all steps before it;
\* the message is not begun, the ECDSA verification is not run and
\* ERROR_SECP_VERIFICATION is not returned before the comparison has
\* succeeded, while the two parses, and their errors, come before it.
C7_StepOrder ==
    /\ \A a, b \in 1..Len(trace) :
          a < b => /\ Rank(trace[a]) <= Rank(trace[b])
                   /\ Rank(trace[a]) = Rank(trace[b]) =>
                         trace[a] \in {"group_loop", "trailing_loop"}
    /\ \A b \in 1..Len(trace) :
          \A r \in 1..(Rank(trace[b]) - 1) : \E a \in 1..b : Rank(trace[a]) = r
    /\ (pc /= "done") => Rank(pc) >= (IF trace = <<>> THEN 1 ELSE Rank(trace[Len(trace)]))
    /\ (Has(trace, "hash_first_witness") \/ Has(trace, "verify")) => hash_ok
    /\ ret = ERROR_SECP_VERIFICATION => (hash_ok /\ Has(trace, "verify"))
    /\ hash_ok => (Has(trace, "parse_signature") /\ Has(trace, "parse_pubkey")
                      /\ signature.ok /\ pubkey.ok)
    /\ ret \in {ERROR_SECP_PARSE_SIGNATURE, ERROR_SECP_PARSE_PUBKEY} =>
          (~hash_ok /\ ~Has(trace, "check_pubkey_hash"))

\* A run that returns the signature parse error although the pubkey does not
\* hash to the script argument.
C7_Witness ==
    /\ Done /\ ret = ERROR_SECP_PARSE_SIGNATURE /\ HashDiffers
    /\ secp256k1_ec_pubkey_parse(PubkeyBytes).ok

\* C3: when the run reaches the signature verification, what SHA256 has
\* hashed is exactly the transaction hash, then witness 0 with its signature
\* zeroed, then the witnesses 1.. of the group, then the witnesses from
\* index = number of inputs on, each behind its 8-byte length and with all
\* its bytes, and nothing else.
C3_SighashConstruction ==
    Has(trace, "verify") => (sha.fed = SighashAll(tx) /\ ~sha.clobbered)

\* The successful loads of the run so far.
FoundLoads == {k \in 1..Len(loads) : Found(loads[k])}

\* C5: a loaded witness of exactly MAX_WITNESS_SIZE bytes is accepted (the
\* run does not end with ERROR_WITNESS_SIZE at that load) and a loaded witness
\* of MAX_WITNESS_SIZE + 1 bytes ends the run with ERROR_WITNESS_SIZE.
C5_WitnessSizeBoundary ==
    \A k \in FoundLoads :
        /\ (Size(WitnessOf(loads[k])) = MAX_WITNESS_SIZE /\ k = Len(loads))
              => ret /= ERROR_WITNESS_SIZE
        /\ (Size(WitnessOf(loads[k])) = MAX_WITNESS_SIZE + 1 /\ Done)
              => (k = Len(loads) /\ ret = ERROR_WITNESS_SIZE)

\* C8: no store puts more bytes into a buffer than the buffer has, and no
\* hash update reads more; data that does not fit ends the run with an error.
C8_BufferBounds ==
    /\ stored.temp <= TEMP_SIZE /\ readn.temp <= TEMP_SIZE
    /\ stored.witness <= MAX_WITNESS_SIZE /\ readn.witness <= MAX_WITNESS_SIZE
    /\ stored.script <= SCRIPT_SIZE
    /\ stored.tx_hash <= BLAKE2B_BLOCK_SIZE
    /\ \A k \in FoundLoads :
          (Size(WitnessOf(loads[k])) > (IF k = 1 THEN MAX_WITNESS_SIZE ELSE TEMP_SIZE)) =>
              (Done /\ k = Len(loads) /\ ret \notin {RETURN_0, "running"})

\* The values a changed byte takes.
ByteValues == {0, 1, 2, 3, 4, 255}

\* The transaction with byte k of the lock of witness 0 set to v.
WithLockByte(t, k, v) ==
    LET g == Nth(GroupIndices(t), 1)
        w == t.inputs[g].w IN
    [t EXCEPT !.inputs[g].w.head[w.off + k] = v]

\* The transaction with byte k of the transaction hash set to v.
WithTxHashByte(t, k, v) == [t EXCEPT !.tx_hash.bytes[k] = v]

\* The transactions that differ from tx in one byte of the signature (all
\* signature_len bytes), of the pubkey or of the transaction hash.
SingleByteChanges ==
    ({WithLockByte(tx, k, v) : k \in 1..W0.lock, v \in ByteValues}
     \cup {WithTxHashByte(tx, k, v) : k \in 1..Len(tx.tx_hash.bytes), v \in ByteValues})
    \ {tx}

\* C2: when the run on a transaction verifies the signature and returns 0,
\* the run on the same
\* transaction with one byte of the signature, the pubkey or the transaction
\* hash changed (the signature the owner issued staying what it is) does not.
C2_NoFalseSuccess ==
    (Done /\ Has(trace, "verify") /\ ret = RETURN_0) =>
        \A t \in SingleByteChanges : Outcome(t, build, signed) /= RETURN_0

\* The witnesses an input of another script may carry.
ForeignChoices == ExtraWitnesses \cup {ForeignWitness, GoodWitness}

\* The transactions that differ from t only in the witnesses of the inputs
\* outside the group.
RECURSIVE ForeignChanges(_, _)
ForeignChanges(t, k) ==
    IF k = 0 THEN {t}
    ELSE IF t.inputs[k].grouped THEN ForeignChanges(t, k - 1)
    ELSE UNION {ForeignChanges([t EXCEPT !.inputs[k].w = w], k - 1) : w \in ForeignChoices}

\* C10: the run loads no Input-scope witness below the number of inputs, and
\* when it has returned, the run on any transaction that differs only in the
\* witnesses of inputs outside the group makes the same loads, hashes the
\* same bytes and returns the same result code.
C10_ForeignWitnesses ==
    /\ \A k \in 1..Len(loads) :
          loads[k][1] = CKB_SOURCE_INPUT => loads[k][2] >= Len(tx.inputs)
    /\ Done =>
          \A t \in ForeignChanges(tx, Len(tx.inputs)) :
              LET r == Run(InitState, t, build, signed) IN
              r.ret = ret /\ r.loads = loads /\ r.sha = sha

\* A run over a transaction with an input of another script and a witness
\* beyond the inputs has verified the signature.
C10_Witness ==
    /\ Done /\ ret = RETURN_0
    /\ \E k \in 1..Len(tx.inputs) : ~tx.inputs[k].grouped
    /\ Len(tx.trailing) > 0
    /\ \E k \in FoundLoads : loads[k][1] = CKB_SOURCE_INPUT

\* Whether a load found no witness at its index, and whether the environment
\* failed to load the witness at its index.
EndOfSequence(load) == load[2] + 1 > Len(ScopeOf(load))

LoadFailed(load) == ~EndOfSequence(load) /\ WitnessOf(load).st /= "ok"

\* The loads of the run: witness 0 of the group, the group from index 1, then
\* the Input scope from the number of inputs, each scan index by index up to
\* its first absent index, where the run goes on; a failing load is the last
\* step of the run and its result is ERROR_SYSCALL.
C9_Scans ==
    /\ (pc = "done") = (ret /= "running")
    /\ \A k \in 1..Len(loads) :
          /\ k = 1 => loads[k] = <<CKB_SOURCE_GROUP_INPUT, 0>>
          /\ k > 1 =>
                \/ /\ loads[k - 1][1] = loads[k][1]
                   /\ loads[k][2] = loads[k - 1][2] + 1
                   /\ ~EndOfSequence(loads[k - 1])
                \/ /\ loads[k - 1][1] = CKB_SOURCE_GROUP_INPUT
                   /\ loads[k][1] = CKB_SOURCE_INPUT
                   /\ EndOfSequence(loads[k - 1])
                   /\ loads[k][2] = Len(tx.inputs)
          /\ (EndOfSequence(loads[k]) /\ k = Len(loads)) =>
                /\ k > 1
                /\ ret \in {"running", RETURN_0, ERROR_SECP_VERIFICATION}
                /\ pc = (IF ret /= "running" THEN "done"
                         ELSE IF loads[k][1] = CKB_SOURCE_GROUP_INPUT
                           THEN "trailing_loop" ELSE "verify")
          /\ LoadFailed(loads[k]) =>
                (k = Len(loads) /\ pc = "done" /\ ret = ERROR_SYSCALL)
    /\ (Has(trace, "load_script") /\ tx.script.st /= "ok") =>
          (trace = <<"load_script">> /\ ret = ERROR_SYSCALL)
    /\ (Has(trace, "load_tx_hash") /\ tx.tx_hash.st /= "ok") =>
          (trace[Len(trace)] = "load_tx_hash" /\ ret = ERROR_SYSCALL)

\* Once main has returned, its result stays and no step follows.
C9_Final == ret /= "running" => UNCHANGED vars

\* C9: every run returns, with one result that stays; the scans of the
\* witnesses visit increasing indices and stop at the first absent index,
\* which is no error, and any other failing load ends the run at once with
\* ERROR_SYSCALL, after which no load, hash or verify step is taken.
C9_Termination == []C9_Scans /\ [][C9_Final]_vars /\ <>[](pc = "done")

\* A run has passed the end of the group, loaded a witness beyond the
\* inputs, and returned ERROR_SYSCALL at the failing load of the next one.
C9_Witness ==
    /\ pc = "done" /\ ret = ERROR_SYSCALL
    /\ Len(loads) > 3
    /\ LoadFailed(loads[Len(loads)])
    /\ loads[Len(loads)][1] = CKB_SOURCE_INPUT
    /\ \E k \in FoundLoads : loads[k][1] = CKB_SOURCE_INPUT
====
